---- MODULE Spec2Model ----
(***************************************************************************)
(* A model of midi_tempo_tools/tempo.py: the tempo readers get_midi_bpm    *)
(* and get_all_tempo_changes, the rewriter normalize_tempo, the bridge to  *)
(* the bundled MidiTempoConverter.jar (get_tempo_from_midi) and the        *)
(* composite change_midi_bpm, over a file system that maps paths to MIDI   *)
(* documents.                                                              *)
(*                                                                         *)
(* The library keeps no state between calls (only the file system), so a   *)
(* behaviour is one call made on an initial file system: pc goes from      *)
(* "idle" to "done", `pre' holds the file system the call started from,    *)
(* `call' the operation and its arguments, `result' what the caller gets   *)
(* (a value, or the kind of the exception that reaches it).                *)
(*                                                                         *)
(* A BPM is a Python float with at most two decimals, or an integer        *)
(* argument; it is held as [units, cents] (units + cents/100) because the  *)
(* TLC's integers are 32 bits wide and 60000001 BPM in hundredths is more. *)
(***************************************************************************)
EXTENDS Integers, Sequences, FiniteSets, TLC

VARIABLES fs, jar, pre, call, result, pc

vars == <<fs, jar, pre, call, result, pc>>

-----------------------------------------------------------------------------
(* Bounds of the model *)

\* the most tracks of an input document
MaxTracks == 2

\* the most events of an input document, over all its tracks
MaxEvents == 3

\* the largest tempo (microseconds per beat) the round trip is applied to
MaxTempoArg == 250000

\* the largest integer BPM bpmToTempo is applied to on its own
MaxBpmArg == 300

-----------------------------------------------------------------------------
(* Tempo math: tempo.py lines 36-37, 70 and 104 *)

\* the numerator of both conversions
MICROSECONDS_PER_MINUTE == 60000000

\* the largest tempo a set_tempo meta message encodes (three bytes)
MAX_TEMPO == 16777215

None == [kind |-> "None"]

Bpm(units, cents) == [kind |-> "bpm", units |-> units, cents |-> cents]

\* n / d rounded to the nearest integer, a tie going to the even one: what
\* Python's round() does on a quotient whose ties are exact binary fractions
RoundHalfEven(n, d) ==
    LET q == n \div d
        r == n % d
    IN  IF 2 * r > d \/ (2 * r = d /\ q % 2 = 1) THEN q + 1 ELSE q

\* the BPM rounded to one decimal instead of two
TempoToBpmOneDecimal(tempo) ==
    LET q == MICROSECONDS_PER_MINUTE \div tempo
        r == MICROSECONDS_PER_MINUTE % tempo
        d == RoundHalfEven(10 * r, tempo)
    IN  IF d = 10 THEN Bpm(q + 1, 0) ELSE Bpm(q, 10 * d)

\* round(60000000 / tempo, 2) for tempo > 0: lines 36-37 and 70
TempoToBpm(tempo) ==
    LET q == MICROSECONDS_PER_MINUTE \div tempo
        r == MICROSECONDS_PER_MINUTE % tempo
        c == RoundHalfEven(100 * r, tempo)
    IN  IF c = 100 THEN Bpm(q + 1, 0) ELSE Bpm(q, c)

\* (q, r) pairs stand for q + r/h; their sum, without leaving 32 bits
AddQR(a, b, h) ==
    IF a[2] >= h - b[2] THEN <<a[1] + b[1] + 1, a[2] - (h - b[2])>>
                        ELSE <<a[1] + b[1], a[2] + b[2]>>

\* floor(100 * n / h), for h > 0, by doubling: 100 = 64 + 32 + 4
FloorTimes100(n, h) ==
    LET p1  == <<n \div h, n % h>>
        p2  == AddQR(p1, p1, h)
        p4  == AddQR(p2, p2, h)
        p8  == AddQR(p4, p4, h)
        p16 == AddQR(p8, p8, h)
        p32 == AddQR(p16, p16, h)
        p64 == AddQR(p32, p32, h)
    IN  AddQR(AddQR(p64, p32, h), p4, h)[1]

\* round(60_000_000 / bpm) on an integer BPM: the nearest integer
BpmToTempoRounded(bpm) ==
    (2 * MICROSECONDS_PER_MINUTE + bpm.units) \div (2 * bpm.units)

\* int(60_000_000 / bpm) for bpm > 0: the quotient truncated
BpmToTempo(bpm) ==
    IF bpm.cents = 0
    THEN MICROSECONDS_PER_MINUTE \div bpm.units
    ELSE FloorTimes100(MICROSECONDS_PER_MINUTE, 100 * bpm.units + bpm.cents)

IsZeroBpm(bpm) == bpm.units = 0 /\ bpm.cents = 0

-----------------------------------------------------------------------------
(* MIDI documents as mido decodes them: mid.ticks_per_beat, mid.tracks,    *)
(* each track a list of messages with msg.type, msg.time (the delta time)  *)
(* and, for set_tempo, msg.tempo                                           *)

\* the delta times of the input documents' events
Deltas == {0, 50}

\* the tempo values of the input documents' set_tempo events
DocTempos == {0, 500000, 600000}

\* the ticks_per_beat of the input documents (a new MidiFile() has 480)
DocTicksPerBeat == {96}

NoteOn(time) == [type |-> "note_on", time |-> time, note |-> 60]

SetTempo(time, tempo) == [type |-> "set_tempo", time |-> time, tempo |-> tempo]

Events ==
    {NoteOn(d) : d \in Deltas} \cup {SetTempo(d, t) : d \in Deltas, t \in DocTempos}

MidiDoc(tpb, tracks) == [ticks_per_beat |-> tpb, tracks |-> tracks]

\* lens[1] + ... + lens[k]
RECURSIVE SumTo(_, _)
SumTo(lens, k) == IF k = 0 THEN 0 ELSE lens[k] + SumTo(lens, k - 1)

\* the shapes of the input documents: the number of events of each track, for
\* at most MaxTracks tracks holding at most MaxEvents events together
DocShapes ==
    UNION {{lens \in [1..k -> 0..MaxEvents] : SumTo(lens, k) <= MaxEvents} : k \in 0..MaxTracks}

\* the tracks of the shape lens filled, in order, with the events of flat
TracksOf(flat, lens) ==
    [i \in 1..Len(lens) |-> SubSeq(flat, SumTo(lens, i - 1) + 1, SumTo(lens, i))]

IsSetTempo(msg) == msg.type = "set_tempo"

\* the messages of all tracks in the order "for track ... for msg ..." meets them
RECURSIVE Flatten(_)
Flatten(tracks) ==
    IF tracks = <<>> THEN <<>> ELSE Head(tracks) \o Flatten(Tail(tracks))

HasSetTempo(doc) == \E i \in 1..Len(Flatten(doc.tracks)) : IsSetTempo(Flatten(doc.tracks)[i])

-----------------------------------------------------------------------------
(* What a call gives its caller *)

Ok(value) == [kind |-> "ok", value |-> value]

Raise(exception) == [kind |-> exception]

IsError(r) == r.kind # "ok"

-----------------------------------------------------------------------------
(* The scans of the two readers, on a decoded document *)

\* the last set_tempo of the scan instead of the first
RECURSIVE LastTempoScan(_)
LastTempoScan(msgs) ==
    IF msgs = <<>> THEN None
    ELSE IF IsSetTempo(msgs[Len(msgs)])
         THEN (IF msgs[Len(msgs)].tempo = 0 THEN Raise("ZeroDivisionError")
               ELSE TempoToBpm(msgs[Len(msgs)].tempo))
         ELSE LastTempoScan(SubSeq(msgs, 1, Len(msgs) - 1))

\* lines 32-39: the value returned at the first set_tempo, None after the loops;
\* 60000000 / 0 raises inside the try
RECURSIVE FirstTempoScan(_)
FirstTempoScan(msgs) ==
    IF msgs = <<>> THEN None
    ELSE IF IsSetTempo(Head(msgs))
         THEN (IF Head(msgs).tempo = 0 THEN Raise("ZeroDivisionError")
               ELSE TempoToBpm(Head(msgs).tempo))
         ELSE FirstTempoScan(Tail(msgs))

TempoChange(time, bpm) == [time |-> time, bpm |-> bpm]

\* lines 66-74 for one track: track_time runs from the value given
RECURSIVE TrackChanges(_, _)
TrackChanges(track, track_time) ==
    IF track = <<>> THEN <<>>
    ELSE LET msg == Head(track)
             now == track_time + msg.time
         IN  IF IsSetTempo(msg)
             THEN <<TempoChange(now, IF msg.tempo = 0 THEN Raise("ZeroDivisionError")
                                     ELSE TempoToBpm(msg.tempo))>>
                  \o TrackChanges(Tail(track), now)
             ELSE TrackChanges(Tail(track), now)

\* lines 65-74: tempo_changes before it is sorted
RECURSIVE AllChanges(_)
AllChanges(tracks) ==
    IF tracks = <<>> THEN <<>>
    ELSE TrackChanges(Head(tracks), 0) \o AllChanges(Tail(tracks))

\* e put in front of the first entry of a later or equal time
RECURSIVE InsertBefore(_, _)
InsertBefore(e, sorted) ==
    IF sorted = <<>> THEN <<e>>
    ELSE IF Head(sorted).time < e.time
         THEN <<Head(sorted)>> \o InsertBefore(e, Tail(sorted))
         ELSE <<e>> \o sorted

\* e put behind every entry of a time not later than its own
RECURSIVE InsertSorted(_, _)
InsertSorted(e, sorted) ==
    IF sorted = <<>> THEN <<e>>
    ELSE IF Head(sorted).time <= e.time
         THEN <<Head(sorted)>> \o InsertSorted(e, Tail(sorted))
         ELSE <<e>> \o sorted

\* line 76: sorted(tempo_changes, key=lambda x: x['time']), a stable sort
RECURSIVE SortedByTime(_)
SortedByTime(changes) ==
    IF changes = <<>> THEN <<>>
    ELSE InsertSorted(changes[Len(changes)],
                      SortedByTime(SubSeq(changes, 1, Len(changes) - 1)))

-----------------------------------------------------------------------------
(* The file system: what each path holds *)

\* output_path=None, output_file=None
NONE_PATH == "<None>"

\* a location open() cannot write: a directory that is read-only or missing
UNWRITABLE == "ro/out.mid"

\* os.path.splitext(midi_file) and f"{file_name}_tempo{new_tempo}{file_ext}",
\* lines 153-154, on the paths of the model
DerivedName(midi_file, new_tempo) ==
    CASE midi_file = "in.mid"  -> "in_tempo120.mid"
      [] midi_file = "out.mid" -> "out_tempo120.mid"
      [] midi_file = "song"    -> "song_tempo120"

InputPaths == {"in.mid", "out.mid", "song"}

Paths == InputPaths \cup {UNWRITABLE} \cup {DerivedName(p, 120) : p \in InputPaths}

\* whether '.' occurs in the path: rsplit('.', 1) gives two parts, line 157
HasDot(path) == path # "song"

Absent == [kind |-> "absent"]

Midi(doc) == [kind |-> "midi", doc |-> doc]

\* a file MidiFile(path) cannot decode
Undecodable == [kind |-> "undecodable"]

\* os.path.exists(path)
Exists(f, path) == f[path].kind # "absent"

Writable(path) == path # UNWRITABLE

-----------------------------------------------------------------------------
(* The operations, as functions of the file system f and the arguments *)

\* lines 26-41
get_midi_bpm(f, midi_file) ==
    IF ~Exists(f, midi_file) THEN Raise("FileNotFoundError")
    ELSE IF f[midi_file].kind # "midi" THEN Raise("TempoError")
    ELSE LET r == FirstTempoScan(Flatten(f[midi_file].doc.tracks))
         IN  IF r.kind \in {"bpm", "None"} THEN Ok(r) ELSE Raise("TempoError")

\* lines 58-78
get_all_tempo_changes(f, midi_file) ==
    IF ~Exists(f, midi_file) THEN Raise("FileNotFoundError")
    ELSE IF f[midi_file].kind # "midi" THEN Raise("TempoError")
    ELSE LET changes == AllChanges(f[midi_file].doc.tracks)
         IN  IF \E i \in 1..Len(changes) : changes[i].bpm.kind # "bpm"
             THEN Raise("TempoError")
             ELSE Ok(SortedByTime(changes))

\* the copy that also resets the delta time
CopyMessageZeroTime(msg, target_tempo) ==
    IF IsSetTempo(msg) THEN [msg EXCEPT !.tempo = target_tempo, !.time = 0] ELSE msg

\* lines 111-115: msg.copy(tempo=target_tempo) for set_tempo, msg itself otherwise
CopyMessage(msg, target_tempo) ==
    IF IsSetTempo(msg) THEN [msg EXCEPT !.tempo = target_tempo] ELSE msg

\* lines 106-115 for one track
RewriteTrack(track, target_tempo) ==
    [j \in 1..Len(track) |-> CopyMessage(track[j], target_tempo)]

\* only the first track's set_tempo events rewritten
RewriteFirstTrackOnly(mid, target_tempo) ==
    MidiDoc(mid.ticks_per_beat,
            [i \in 1..Len(mid.tracks) |->
                IF i = 1 THEN RewriteTrack(mid.tracks[i], target_tempo) ELSE mid.tracks[i]])

\* lines 102-115: new_mid
Rewrite(mid, target_tempo) ==
    MidiDoc(mid.ticks_per_beat,
            [i \in 1..Len(mid.tracks) |-> RewriteTrack(mid.tracks[i], target_tempo)])

\* whether line 112 raises: msg.copy checks the tempo it is given against
\* the three bytes a set_tempo holds
CopyRaises(mid, target_tempo) == HasSetTempo(mid) /\ target_tempo > MAX_TEMPO

Outcome(r, f) == [result |-> r, fs |-> f]

\* lines 94-119: the exceptions of the decoding, of 60_000_000 / 0, of
\* msg.copy and of save (which opens the output first) leave as TempoError
normalize_tempo(f, midi_path, target_bpm, output_path) ==
    IF ~Exists(f, midi_path) THEN Outcome(Raise("FileNotFoundError"), f)
    ELSE LET out == IF output_path = NONE_PATH THEN midi_path ELSE output_path
         IN  IF f[midi_path].kind # "midi" \/ IsZeroBpm(target_bpm)
             THEN Outcome(Raise("TempoError"), f)
             ELSE IF CopyRaises(f[midi_path].doc, BpmToTempo(target_bpm)) \/ ~Writable(out)
             THEN Outcome(Raise("TempoError"), f)
             ELSE Outcome(Ok(None),
                          [f EXCEPT ![out] = Midi(Rewrite(f[midi_path].doc,
                                                          BpmToTempo(target_bpm)))])

\* the path read back at line 216 and reported at line 221: output_path or input_file
EffectivePath(input_file, output_path) ==
    IF output_path = NONE_PATH THEN input_file ELSE output_path

\* the original BPM read after the rewrite instead of before it
change_midi_bpm_late_read(f, input_file, output_path, target_bpm) ==
    LET o == normalize_tempo(f, input_file, target_bpm, output_path)
        original_bpm == get_midi_bpm(o.fs, input_file)
        new_bpm == get_midi_bpm(o.fs, EffectivePath(input_file, output_path))
    IN  IF IsError(get_midi_bpm(f, input_file)) THEN Outcome(Raise("TempoError"), f)
        ELSE IF IsError(o.result) \/ IsError(original_bpm) \/ IsError(new_bpm)
        THEN Outcome(Raise("TempoError"), o.fs)
        ELSE Outcome(Ok([original_bpm |-> original_bpm.value,
                         new_bpm |-> new_bpm.value,
                         file_path |-> EffectivePath(input_file, output_path)]),
                     o.fs)

\* lines 208-224: every exception of the three steps, FileNotFoundError
\* included, leaves as TempoError
change_midi_bpm(f, input_file, output_path, target_bpm) ==
    LET original_bpm == get_midi_bpm(f, input_file)
        o == normalize_tempo(f, input_file, target_bpm, output_path)
        new_bpm == get_midi_bpm(o.fs, EffectivePath(input_file, output_path))
    IN  IF IsError(original_bpm) THEN Outcome(Raise("TempoError"), f)
        ELSE IF IsError(o.result) \/ IsError(new_bpm)
        THEN Outcome(Raise("TempoError"), o.fs)
        ELSE Outcome(Ok([original_bpm |-> original_bpm.value,
                         new_bpm |-> new_bpm.value,
                         file_path |-> EffectivePath(input_file, output_path)]),
                     o.fs)

\* what the converter may leave at its output path when it exits with 0: the
\* working copy as it is, or the copy with its tempo events set to the new tempo
JarWrites(file, new_tempo) ==
    IF file.kind = "midi"
    THEN {file, Midi(Rewrite(file.doc, BpmToTempo(Bpm(new_tempo, 0))))}
    ELSE {file}

\* lines 142-187. Lines 153-160 run outside the try: the unpacking of
\* rsplit('.', 1) and shutil.copy raise to the caller as they are. Inside it,
\* a launch that fails and an exit code other than 0 both leave as TempoError.
get_tempo_from_midi(f, jar_exists, midi_file, new_tempo, output_file) ==
    IF ~jar_exists THEN {Outcome(Raise("FileNotFoundError"), f)}
    ELSE IF ~Exists(f, midi_file) THEN {Outcome(Raise("FileNotFoundError"), f)}
    ELSE LET out == IF output_file = NONE_PATH THEN DerivedName(midi_file, new_tempo)
                    ELSE output_file
         IN  IF ~HasDot(midi_file) THEN {Outcome(Raise("ValueError"), f)}
             ELSE IF out = midi_file THEN {Outcome(Raise("SameFileError"), f)}
             ELSE IF ~Writable(out) THEN {Outcome(Raise("PermissionError"), f)}
             ELSE LET copied == [f EXCEPT ![out] = f[midi_file]]
                  IN  {Outcome(Raise("TempoError"), copied)}
                      \cup {Outcome(Ok([tempo_info |-> <<"Old Tempo", "New Tempo">>,
                                        output_file |-> out]),
                                    [copied EXCEPT ![out] = w])
                            : w \in JarWrites(copied[out], new_tempo)}

-----------------------------------------------------------------------------
(* The calls *)

Call(op, input, output, bpm) == [op |-> op, input |-> input, output |-> output, bpm |-> bpm]

NoCall == Call("none", NONE_PATH, NONE_PATH, None)

NoResult == [kind |-> "none"]

Returns(c, o) ==
    /\ pc' = "done"
    /\ call' = c
    /\ pre' = fs
    /\ result' = o.result
    /\ fs' = o.fs
    /\ UNCHANGED jar

GetMidiBpm(midi_file) ==
    /\ pc = "idle"
    /\ Returns(Call("get_midi_bpm", midi_file, NONE_PATH, None),
               Outcome(get_midi_bpm(fs, midi_file), fs))

GetAllTempoChanges(midi_file) ==
    /\ pc = "idle"
    /\ Returns(Call("get_all_tempo_changes", midi_file, NONE_PATH, None),
               Outcome(get_all_tempo_changes(fs, midi_file), fs))

NormalizeTempo(midi_path, target_bpm, output_path) ==
    /\ pc = "idle"
    /\ Returns(Call("normalize_tempo", midi_path, output_path, target_bpm),
               normalize_tempo(fs, midi_path, target_bpm, output_path))

ChangeMidiBpm(input_file, output_path, target_bpm) ==
    /\ pc = "idle"
    /\ Returns(Call("change_midi_bpm", input_file, output_path, target_bpm),
               change_midi_bpm(fs, input_file, output_path, target_bpm))

GetTempoFromMidi(midi_file, new_tempo, output_file) ==
    /\ pc = "idle"
    /\ \E o \in get_tempo_from_midi(fs, jar, midi_file, new_tempo, output_file) :
          Returns(Call("get_tempo_from_midi", midi_file, output_file, Bpm(new_tempo, 0)), o)

\* tempoToBpm as the readers compute it (lines 36-37, 70), then bpmToTempo as
\* the rewriter computes it (line 104), on the tempo the initial state drew
TempoRoundTrip ==
    /\ pc = "idle"
    /\ call.op = "round_trip"
    /\ Returns(call, Outcome(Ok(BpmToTempo(TempoToBpm(call.tempo))), fs))

\* line 104 on the integer BPM the initial state drew
TargetTempo ==
    /\ pc = "idle"
    /\ call.op = "target_tempo"
    /\ Returns(call, Outcome(Ok(BpmToTempo(call.bpm)), fs))

-----------------------------------------------------------------------------
(* Spec: the five operations in an environment of a few files *)

\* the two-track file of the example: a tempo of 120 BPM, then notes
ExampleDoc ==
    MidiDoc(96, << <<SetTempo(0, 500000), NoteOn(50)>>, <<NoteOn(50), NoteOn(50)>> >>)

NoTempoDoc == MidiDoc(96, << <<NoteOn(0), NoteOn(50)>> >>)

OldDoc == MidiDoc(480, << <<SetTempo(0, 600000)>> >>)

\* target BPMs: 0; 3, whose tempo needs more than three bytes; 60 and 120,
\* which divide 60000000, and 7, 90 and 130, which do not; 60000001, whose
\* tempo is 0
TargetBpms == {Bpm(b, 0) : b \in {0, 3, 7, 60, 90, 120, 130, 60000001}}

OutputPaths == {NONE_PATH, "in.mid", "out.mid", UNWRITABLE}

Init ==
    /\ \E i \in {Absent, Undecodable, Midi(ExampleDoc), Midi(NoTempoDoc)} :
       \E o \in {Absent, Midi(OldDoc)} :
       \E s \in {Absent, Midi(ExampleDoc)} :
           fs = [p \in Paths |-> CASE p = "in.mid"  -> i
                                   [] p = "out.mid" -> o
                                   [] p = "song"    -> s
                                   [] OTHER         -> Absent]
    /\ jar \in BOOLEAN
    /\ pre = fs
    /\ call = NoCall
    /\ result = NoResult
    /\ pc = "idle"

Next ==
    \/ \E p \in InputPaths : GetMidiBpm(p)
    \/ \E p \in InputPaths : GetAllTempoChanges(p)
    \/ \E p \in InputPaths, b \in TargetBpms, o \in OutputPaths : NormalizeTempo(p, b, o)
    \/ \E p \in InputPaths, b \in TargetBpms, o \in OutputPaths : ChangeMidiBpm(p, o, b)
    \/ \E p \in InputPaths, o \in OutputPaths : GetTempoFromMidi(p, 120, o)

Spec == Init /\ [][Next]_vars

-----------------------------------------------------------------------------
(* SpecDocs: the readers and the rewriter on every document of the bounds *)

DocBpms == {Bpm(90, 0), Bpm(120, 0)}

InitDocs ==
    /\ \E lens \in DocShapes :
       \E flat \in [1..SumTo(lens, Len(lens)) -> Events] :
       \E tpb \in DocTicksPerBeat :
           fs = [p \in Paths |-> IF p = "in.mid"
                                 THEN Midi(MidiDoc(tpb, TracksOf(flat, lens)))
                                 ELSE Absent]
    /\ jar = TRUE
    /\ pre = fs
    /\ call = NoCall
    /\ result = NoResult
    /\ pc = "idle"

NextDocs ==
    \/ GetMidiBpm("in.mid")
    \/ GetAllTempoChanges("in.mid")
    \/ \E b \in DocBpms, o \in {NONE_PATH, "out.mid"} : NormalizeTempo("in.mid", b, o)
    \/ \E b \in DocBpms, o \in {NONE_PATH, "out.mid"} : ChangeMidiBpm("in.mid", o, b)

SpecDocs == InitDocs /\ [][NextDocs]_vars

-----------------------------------------------------------------------------
(* SpecMath: the two conversions on their own *)

InitMath ==
    /\ fs = [p \in Paths |-> Absent]
    /\ jar = TRUE
    /\ pre = fs
    /\ call \in {[op |-> "round_trip", tempo |-> t] : t \in 1..MaxTempoArg}
                \cup {[op |-> "target_tempo", bpm |-> Bpm(b, 0)] : b \in 1..MaxBpmArg}
    /\ result = NoResult
    /\ pc = "idle"

NextMath ==
    \/ TempoRoundTrip
    \/ TargetTempo

SpecMath == InitMath /\ [][NextMath]_vars

-----------------------------------------------------------------------------
(* The claims *)

Done(op) == pc = "done" /\ call.op = op

\* the document the call read
InputDoc == pre[call.input].doc

\* the path the call wrote
OutputPath == EffectivePath(call.input, call.output)

\* C1: the document normalize_tempo writes has the ticks_per_beat, the number
\* of tracks and, track by track, the number of events of its input; every
\* event keeps its type and delta time, every event other than set_tempo is
\* the input's event, and a set_tempo differs from the input's in its tempo
\* at most.
C1_RewriteKeepsStructure ==
    (Done("normalize_tempo") /\ result.kind = "ok") =>
        /\ fs[OutputPath].kind = "midi"
        /\ LET old == InputDoc
               new == fs[OutputPath].doc
           IN  /\ new.ticks_per_beat = old.ticks_per_beat
               /\ Len(new.tracks) = Len(old.tracks)
               /\ \A i \in 1..Len(old.tracks) :
                    /\ Len(new.tracks[i]) = Len(old.tracks[i])
                    /\ \A j \in 1..Len(old.tracks[i]) :
                         LET a == old.tracks[i][j]
                             b == new.tracks[i][j]
                         IN  /\ b.type = a.type
                             /\ b.time = a.time
                             /\ ~IsSetTempo(a) => b = a
                             /\ IsSetTempo(a) => [b EXCEPT !.tempo = a.tempo] = a

\* a two-track document with a tempo event of delta 50 rewritten to out.mid
C1_Witness ==
    /\ Done("normalize_tempo") /\ result.kind = "ok"
    /\ call.output = "out.mid"
    /\ InputDoc.tracks = << <<SetTempo(50, 500000), NoteOn(0)>>, <<NoteOn(50)>> >>
    /\ fs["out.mid"] # pre["in.mid"]

\* C2: for an input document with at least one set_tempo event, wherever it
\* is, normalize_tempo with target_bpm = 90 succeeds and get_midi_bpm on the
\* file it wrote returns 90.0.
C2_Rewrite90ReadsBack90 ==
    (Done("normalize_tempo") /\ call.bpm = Bpm(90, 0) /\ HasSetTempo(InputDoc)) =>
        /\ result.kind = "ok"
        /\ get_midi_bpm(fs, OutputPath) = Ok(Bpm(90, 0))

\* the only tempo event is the last event of the second track
C2_Witness ==
    /\ Done("normalize_tempo") /\ call.bpm = Bpm(90, 0)
    /\ InputDoc.tracks = << <<NoteOn(50)>>, <<NoteOn(0), SetTempo(50, 0)>> >>
    /\ get_midi_bpm(fs, OutputPath) = Ok(Bpm(90, 0))

\* the places <<i, j>> of the set_tempo events, track by track
TempoPlaces(tracks) ==
    LET places == Flatten([i \in 1..Len(tracks) |-> [j \in 1..Len(tracks[i]) |-> <<i, j>>]])
    IN  SelectSeq(places, LAMBDA ij : IsSetTempo(tracks[ij[1]][ij[2]]))

\* the delta times of the first j events of a track, added up
RECURSIVE AbsoluteTick(_, _)
AbsoluteTick(track, j) == IF j = 0 THEN 0 ELSE track[j].time + AbsoluteTick(track, j - 1)

\* where the n-th tempo event of the scan stands in the sorted list: behind
\* every earlier one, and behind those of its own time that the scan met first
RankOf(tracks, n) ==
    LET places == TempoPlaces(tracks)
        tick(m) == AbsoluteTick(tracks[places[m][1]], places[m][2])
    IN  Cardinality({m \in 1..Len(places) : tick(m) < tick(n)})
        + Cardinality({m \in 1..n : tick(m) = tick(n)})

\* C3: get_all_tempo_changes returns one entry per set_tempo event (none when
\* there is none); an entry's time is the sum of the delta times of its track
\* up to and including the event; the list is ascending by time and entries
\* of one time keep the order of the track-major scan. (It returns unless a
\* set_tempo event holds the tempo 0, which raises.)
C3_AllChangesSortedStable ==
    Done("get_all_tempo_changes") =>
        LET tracks == InputDoc.tracks
            places == TempoPlaces(tracks)
            event(n) == tracks[places[n][1]][places[n][2]]
        IN  IF \E n \in 1..Len(places) : event(n).tempo = 0
            THEN result.kind = "TempoError"
            ELSE /\ result.kind = "ok"
                 /\ Len(result.value) = Len(places)
                 /\ \A a, b \in 1..Len(result.value) :
                        a < b => result.value[a].time <= result.value[b].time
                 /\ \A n \in 1..Len(places) :
                        result.value[RankOf(tracks, n)] =
                            TempoChange(AbsoluteTick(tracks[places[n][1]], places[n][2]),
                                        TempoToBpm(event(n).tempo))

\* tempo events at tick 100 in the first track and at tick 50 in the second
C3_Witness ==
    /\ Done("get_all_tempo_changes")
    /\ InputDoc.tracks = << <<NoteOn(50), SetTempo(50, 500000)>>, <<SetTempo(50, 600000)>> >>
    /\ result = Ok(<<TempoChange(50, Bpm(100, 0)), TempoChange(100, Bpm(120, 0))>>)

\* C4: get_midi_bpm returns the BPM of the first set_tempo event of the
\* track-major scan, and returns None exactly when no track holds a set_tempo
\* event. (A first set_tempo of tempo 0 has no BPM: the call raises.)
C4_FirstTempoTrackMajor ==
    Done("get_midi_bpm") =>
        LET tracks == InputDoc.tracks
            places == TempoPlaces(tracks)
        IN  /\ result = Ok(None) <=> places = <<>>
            /\ places # <<>> =>
                 LET first == tracks[places[1][1]][places[1][2]]
                 IN  IF first.tempo = 0 THEN result.kind = "TempoError"
                     ELSE result = Ok(TempoToBpm(first.tempo))

\* the first track's tempo event is at tick 50, the second track's at tick 0
C4_Witness ==
    /\ Done("get_midi_bpm")
    /\ InputDoc.tracks = << <<SetTempo(50, 600000)>>, <<SetTempo(0, 500000)>> >>
    /\ result = Ok(Bpm(100, 0))

OwnOperations == {"get_midi_bpm", "get_all_tempo_changes", "normalize_tempo", "change_midi_bpm"}

\* C5: each of get_midi_bpm, get_all_tempo_changes, normalize_tempo and
\* change_midi_bpm, called with an input path that does not exist, fails
\* with FileNotFoundError and writes no file.
C5_MissingInputIsFileNotFound ==
    (pc = "done" /\ call.op \in OwnOperations /\ ~Exists(pre, call.input)) =>
        /\ result.kind = "FileNotFoundError"
        /\ fs = pre

\* C6, as claimed: for every positive tempo t, bpmToTempo(tempoToBpm(t)) is
\* within 1 of t.
C6_RoundTripWithinOne ==
    Done("round_trip") =>
        /\ result.value - call.tempo <= 1
        /\ call.tempo - result.value <= 1

\* C6, amended: for every tempo t from 1 to 109872, bpmToTempo(tempoToBpm(t))
\* is within 1 of t.
C6_RoundTripWithinOneUpTo109872 ==
    (Done("round_trip") /\ call.tempo <= 109872) =>
        /\ result.value - call.tempo <= 1
        /\ call.tempo - result.value <= 1

\* the largest tempo of the amended claim, which comes back one lower
C6_Witness ==
    /\ Done("round_trip")
    /\ call.tempo = 109872
    /\ result.value = 109871

\* the set_tempo events of the file the call wrote
WrittenTempoEvents ==
    LET msgs == Flatten(fs[OutputPath].doc.tracks)
    IN  {msgs[i] : i \in {k \in 1..Len(msgs) : IsSetTempo(msgs[k])}}

\* C7, as claimed: the tempo normalize_tempo writes into each set_tempo event
\* is within 1/2 of 60000000 / target_bpm.
C7_WrittenTempoIsNearest ==
    (Done("normalize_tempo") /\ result.kind = "ok") =>
        \A msg \in WrittenTempoEvents :
            LET d == call.bpm.units * msg.tempo - MICROSECONDS_PER_MINUTE
            IN  2 * d <= call.bpm.units /\ -2 * d <= call.bpm.units

\* C7, amended: the tempo normalize_tempo writes into each set_tempo event is
\* 60000000 / target_bpm truncated to an integer: not above the quotient and
\* less than 1 below it.
C7_WrittenTempoIsTruncated ==
    (Done("normalize_tempo") /\ result.kind = "ok") =>
        \A msg \in WrittenTempoEvents :
            LET d == MICROSECONDS_PER_MINUTE - call.bpm.units * msg.tempo
            IN  0 <= d /\ d < call.bpm.units

\* 90 BPM written as 666666, where the nearest integer is 666667
C7_Witness ==
    /\ Done("normalize_tempo") /\ result.kind = "ok"
    /\ call.bpm = Bpm(90, 0)
    /\ SetTempo(0, 666666) \in WrittenTempoEvents

\* C8: whenever a call of get_midi_bpm, get_all_tempo_changes, normalize_tempo
\* or change_midi_bpm ends in an error, every path holds what it held before
\* the call.
C8_FailureWritesNothing ==
    (pc = "done" /\ call.op \in OwnOperations /\ IsError(result)) => fs = pre

\* C9: a call ends in a result, in TempoError or in FileNotFoundError.
C9_TwoErrorKinds ==
    pc = "done" => result.kind \in {"ok", "TempoError", "FileNotFoundError"}

\* C10: on success change_midi_bpm reports as original_bpm the first tempo
\* of the input as it was before the rewrite, as new_bpm the first tempo of
\* the file at output_path (of the overwritten input when output_path is
\* None) after it, and as file_path that path; an output_path that is given
\* and is not the input leaves the input file as it was.
C10_ChangeReportsBeforeAndAfter ==
    (Done("change_midi_bpm") /\ result.kind = "ok") =>
        /\ Ok(result.value.original_bpm) = get_midi_bpm(pre, call.input)
        /\ Ok(result.value.new_bpm) = get_midi_bpm(fs, OutputPath)
        /\ result.value.file_path = (IF call.output = NONE_PATH THEN call.input ELSE call.output)
        /\ (call.output # NONE_PATH /\ call.output # call.input) => fs[call.input] = pre[call.input]

\* a 120 BPM file rewritten in place to 90 BPM
C10_Witness ==
    /\ Done("change_midi_bpm") /\ result.kind = "ok"
    /\ call.output = NONE_PATH
    /\ result.value = [original_bpm |-> Bpm(120, 0), new_bpm |-> Bpm(90, 0), file_path |-> "in.mid"]
    /\ fs["in.mid"] # pre["in.mid"]

====
